---- MODULE Spec2Model ----
(***************************************************************************)
(* LifeScan AI: the upload validator, the two scorers, the response        *)
(* shaper and the HTTP handlers of backend/app_fastapi.py, and the /scan   *)
(* handler of frontend/index.py with its upload directory.                 *)
(*                                                                         *)
(* Conventions                                                             *)
(*  - A Python str on which the code works character by character          *)
(*    (rsplit, lower, secure_filename) is a sequence of one-character      *)
(*    strings: "a.PNG" is <<"a", ".", "P", "N", "G">>.                     *)
(*  - A Python str that the code only compares, stores or interpolates is  *)
(*    a TLA+ string.                                                       *)
(*  - An f-string is the sequence of its fragments, or its template with   *)
(*    the value it interpolates.                                           *)
(*  - A Python float with one decimal is the integer number of tenths:     *)
(*    0.7 is 7, 0.4 is 4, 2.5 is 25; an age is a whole number of years.    *)
(*  - A dynamically typed Python value is a record tagged by its type in   *)
(*    field t (PyNone, PyNum, PyStr, PyList, PyDict).                      *)
(*  - A dict with string keys is a function whose domain is its key set.   *)
(***************************************************************************)
EXTENDS Integers, Sequences, FiniteSets, TLC

VARIABLES
    logger,      \* backend: the attribute APP.logger ("unset": no such attribute)
    req,         \* backend: the request being answered
    ext,         \* backend: what analyze_image did for this request
    nar,         \* backend: what generate_insights did for this request
    calls,       \* backend: the functions the handler called, in order
    exc,         \* backend: the exception the handler's `except Exception` caught
    resp,        \* backend: the HTTP response of this request
    sc,          \* scorers: [features, physical, cognitive] of the last evaluation
    sh,          \* shaper: [mode, features, scores, explanation, out] of the last call
    cfg,         \* frontend: [azure, openai] whether the credentials are configured
    upload_dir,  \* frontend: the names of the files in UPLOAD_DIR
    uuids,       \* frontend: the uuid4 values drawn so far
    fr           \* frontend: request id -> the state of that request's handler

vars == <<logger, req, ext, nar, calls, exc, resp, sc, sh, cfg, upload_dir, uuids, fr>>

backendVars == <<logger, req, ext, nar, calls, exc, resp>>
frontendVars == <<cfg, upload_dir, uuids, fr>>

----------------------------------------------------------------------------
(* Bounds of the model *)

MaxBytes == 2      \* longest payload, in bytes
MaxFaces == 2      \* longest faces list given to the scorers
MaxAge == 23       \* largest age given to the scorers
MaxKeys == 2       \* most keys present in a scores mapping given to the shaper
MaxReq == 2        \* concurrent requests to the frontend's /scan

----------------------------------------------------------------------------
(* Python values *)

PyNone == [t |-> "None"]
PyNum(n) == [t |-> "num", v |-> n]
PyStr(s) == [t |-> "str", s |-> s]
PyList(l) == [t |-> "list", l |-> l]
PyDict(d) == [t |-> "dict", d |-> d]

\* bool(v)
Truthy(v) ==
    CASE v.t = "None" -> FALSE
      [] v.t = "num" -> v.v # 0
      [] v.t = "str" -> v.s # ""
      [] v.t = "list" -> v.l # <<>>
      [] v.t = "dict" -> DOMAIN v.d # {}

\* a or b
PyOr(a, b) == IF Truthy(a) THEN a ELSE b

\* d.get(k), d.get(k, None)
Get(d, k) == IF k \in DOMAIN d THEN d[k] ELSE PyNone

\* The strings an Optional[str] parameter can hold, and None.
NoStr == [none |-> TRUE, s |-> <<>>]
SomeStr(s) == [none |-> FALSE, s |-> s]

\* str.lower() on the characters of the model's alphabet
LowerChar(c) ==
    CASE c = "A" -> "a" [] c = "B" -> "b" [] c = "C" -> "c" [] c = "F" -> "f"
      [] c = "G" -> "g" [] c = "H" -> "h" [] c = "I" -> "i" [] c = "J" -> "j"
      [] c = "L" -> "l" [] c = "N" -> "n" [] c = "P" -> "p" [] c = "S" -> "s"
      [] c = "T" -> "t" [] c = "Y" -> "y"
      [] OTHER -> c

Lower(s) == [i \in 1..Len(s) |-> LowerChar(s[i])]

\* s.rsplit(".", 1)
RSplitDot(s) ==
    LET dots == {i \in 1..Len(s) : s[i] = "."}
    IN  IF dots = {} THEN <<s>>
        ELSE LET k == CHOOSE i \in dots : \A j \in dots : j <= i
             IN  <<SubSeq(s, 1, k - 1), SubSeq(s, k + 1, Len(s))>>

----------------------------------------------------------------------------
(* backend/app_fastapi.py: upload validation *)

ALLOWED_EXTENSIONS ==
    { <<"p", "n", "g">>, <<"j", "p", "g">>, <<"j", "p", "e", "g">>,
      <<"w", "e", "b", "p">>, <<"b", "m", "p">>, <<"g", "i", "f">> }

\* Mutant: the extension is matched as a suffix of the name, without
\* splitting at the last ".".
Mut_is_allowed_filename_suffix(filename) ==
    /\ ~filename.none
    /\ \E x \in ALLOWED_EXTENSIONS :
           /\ Len(x) <= Len(filename.s)
           /\ SubSeq(Lower(filename.s), Len(filename.s) - Len(x) + 1, Len(filename.s)) = x

\* filename is an Optional[str]: NoStr or SomeStr(characters)
_is_allowed_filename(filename) ==
    IF filename.none \/ filename.s = <<>> THEN FALSE
    ELSE LET parts == RSplitDot(filename.s)
         IN  IF Len(parts) # 2 THEN FALSE
             ELSE Lower(parts[2]) \in ALLOWED_EXTENSIONS

HTTPException(status_code, detail) ==
    [status |-> status_code, body |-> [detail |-> detail]]

\* Mutant: the check of the length is missing.
Mut_read_upload_file_no_length(upload) ==
    IF ~_is_allowed_filename(upload.filename)
    THEN [ok |-> FALSE, http |-> HTTPException(400, <<"Unsupported file type">>)]
    ELSE [ok |-> TRUE, contents |-> upload.contents]

\* upload is [filename, contents]; the result is the bytes, or the
\* HTTPException raised.
_read_upload_file(upload) ==
    IF ~_is_allowed_filename(upload.filename)
    THEN [ok |-> FALSE, http |-> HTTPException(400, <<"Unsupported file type">>)]
    ELSE IF upload.contents = <<>>
    THEN [ok |-> FALSE, http |-> HTTPException(400, <<"Empty file uploaded">>)]
    ELSE [ok |-> TRUE, contents |-> upload.contents]

----------------------------------------------------------------------------
(* backend/physical_processing.py, backend/cognitive_processing.py *)

\* A call that returns a value or raises an exception whose str() is text.
Returns(v) == [ok |-> TRUE, value |-> v]
Raises(type, text) == [ok |-> FALSE, exc |-> [type |-> type, text |-> text]]

\* Mutant: the colour is compared without regard to case.
Mut_evaluate_physical_scan_nocase(features) ==
    IF "color" \notin DOMAIN features THEN Raises("KeyError", "'color'")
    ELSE IF "dominantColorForeground" \notin DOMAIN features["color"]
    THEN Raises("KeyError", "'dominantColorForeground'")
    ELSE LET dominant == features["color"]["dominantColorForeground"]
             anemia_risk == IF dominant \in {"White", "Gray", "white", "gray",
                                             "WHITE", "GRAY"} THEN 7 ELSE 4
         IN  Returns([dominant_color |-> PyStr(dominant),
                      anemia_risk |-> PyNum(anemia_risk)])

evaluate_physical_scan(features) ==
    IF "color" \notin DOMAIN features THEN Raises("KeyError", "'color'")
    ELSE IF "dominantColorForeground" \notin DOMAIN features["color"]
    THEN Raises("KeyError", "'dominantColorForeground'")
    ELSE LET dominant == features["color"]["dominantColorForeground"]
             anemia_risk == IF dominant \in {"White", "Gray"} THEN 7 ELSE 4
         IN  Returns([dominant_color |-> PyStr(dominant),
                      anemia_risk |-> PyNum(anemia_risk)])

\* Mutant: the threshold is inclusive.
Mut_evaluate_cognitive_scan_ge(features) ==
    IF "faces" \notin DOMAIN features THEN Raises("KeyError", "'faces'")
    ELSE IF features["faces"] = <<>>
    THEN Raises("IndexError", "list index out of range")
    ELSE LET age == features["faces"][1].age
             stress_score == IF age >= 20 THEN 8 ELSE 4
         IN  Returns([stress_score |-> PyNum(stress_score),
                      cognitive_load |->
                          PyStr(IF stress_score > 6 THEN "high" ELSE "normal")])

evaluate_cognitive_scan(features) ==
    IF "faces" \notin DOMAIN features THEN Raises("KeyError", "'faces'")
    ELSE IF features["faces"] = <<>>
    THEN Raises("IndexError", "list index out of range")
    ELSE LET age == features["faces"][1].age
             stress_score == IF age > 20 THEN 8 ELSE 4
         IN  Returns([stress_score |-> PyNum(stress_score),
                      cognitive_load |->
                          PyStr(IF stress_score > 6 THEN "high" ELSE "normal")])

----------------------------------------------------------------------------
(* backend/azure_openai.py *)

\* The f-string of the mock narrator: its template and the mapping it
\* interpolates.
generate_insights(scores) ==
    [t |-> "str",
     s |-> "Based on the scan results {scores}, there are mild indicators of possible fatigue or stress. Consider hydration, balanced nutrition, regular sleep, and short breaks.",
     args |-> scores]

----------------------------------------------------------------------------
(* backend/app_fastapi.py: the response shaper *)

\* float(v) for a str v: the decimal literals of the model, in tenths.
FloatOfStr(s) ==
    CASE s = "0" -> Returns(0)
      [] s = "7" -> Returns(70)
      [] s = "2.5" -> Returns(25)
      [] OTHER -> Raises("ValueError", "could not convert string to float")

\* round(x) for a float x in tenths: to the nearest integer, a tie to the
\* even one.
Round(x) ==
    LET q == x \div 10
        r == x % 10
    IN  IF r < 5 THEN q
        ELSE IF r > 5 THEN q + 1
        ELSE IF q % 2 = 0 THEN q ELSE q + 1

\* int(round(float(v))), None when any of the three raises
_norm_score(v) ==
    LET f == CASE v.t = "num" -> Returns(v.v)
               [] v.t = "str" -> FloatOfStr(v.s)
               [] OTHER -> Raises("TypeError", "float() argument must be a string or a real number")
    IN  IF f.ok THEN PyNum(10 * Round(f.value)) ELSE PyNone

\* lines 115-125: the regions entry of the response, if any
RegionOf(o) ==
    [object |-> PyOr(Get(o.d, "object"), Get(o.d, "name")),
     rectangle |-> PyOr(PyOr(Get(o.d, "rectangle"), Get(o.d, "boundingBox")),
                        PyDict(<<>>))]

Regions(vision_features) ==
    IF "regions" \in DOMAIN vision_features
    THEN Returns([present |-> TRUE, value |-> vision_features["regions"]])
    ELSE IF "objects" \in DOMAIN vision_features
    THEN LET objects == vision_features["objects"]
         IN  CASE objects.t = "list" ->
                    LET head == SubSeq(objects.l, 1,
                                       IF Len(objects.l) < 8 THEN Len(objects.l) ELSE 8)
                    IN  IF \E i \in 1..Len(head) : head[i].t # "dict"
                        THEN Raises("AttributeError", "object has no attribute 'get'")
                        ELSE Returns([present |-> TRUE,
                                      value |-> PyList([i \in 1..Len(head) |-> RegionOf(head[i])])])
               [] objects.t = "str" ->
                    IF objects.s = ""
                    THEN Returns([present |-> TRUE, value |-> PyList(<<>>)])
                    ELSE Raises("AttributeError", "'str' object has no attribute 'get'")
               [] OTHER -> Raises("TypeError", "object is not subscriptable")
    ELSE Returns([present |-> FALSE])

\* Mutant: the last alias defaults to 0 (scores.get("health", 0)).
Mut_HealthScoreOf_zero(scores) ==
    PyOr(PyOr(PyOr(Get(scores, "healthScore"), Get(scores, "health_score")),
              Get(scores, "score")),
         IF "health" \in DOMAIN scores THEN scores["health"] ELSE PyNum(0))

\* lines 92-93: the alias chains
HealthScoreOf(scores) ==
    PyOr(PyOr(PyOr(Get(scores, "healthScore"), Get(scores, "health_score")),
              Get(scores, "score")),
         Get(scores, "health"))

CognitiveScoreOf(scores) ==
    PyOr(PyOr(Get(scores, "cognitiveScore"), Get(scores, "cognitive_score")),
         Get(scores, "cognitive"))

\* line 90
SummaryOf(explanation) ==
    IF explanation.t = "str" THEN explanation
    ELSE IF explanation.t = "dict" THEN Get(explanation.d, "summary")
    ELSE PyStr("")

_shape_response(mode, vision_features, scores, explanation) ==
    LET summary == SummaryOf(explanation)
        health_score == HealthScoreOf(scores)
        cognitive_score == CognitiveScoreOf(scores)
        response ==
            [mode |-> mode,
             summary |-> PyOr(summary, PyStr("")),
             healthScore |-> IF health_score # PyNone
                             THEN _norm_score(health_score) ELSE PyNone,
             cognitiveScore |-> IF cognitive_score # PyNone
                                THEN _norm_score(cognitive_score) ELSE PyNone,
             confidence |-> IF Get(scores, "confidence").t = "num"
                            THEN Get(scores, "confidence") ELSE PyNone,
             highlights |-> PyOr(PyOr(Get(scores, "highlights"), Get(scores, "issues")),
                                 PyList(<<>>)),
             recommendations |-> PyOr(Get(scores, "recommendations"), PyList(<<>>)),
             features |-> vision_features,
             scores |-> scores]
        regions == Regions(vision_features)
    IN  IF ~regions.ok THEN regions
        ELSE IF regions.value.present
        THEN Returns(response @@ [regions |-> regions.value.value])
        ELSE Returns(response)

----------------------------------------------------------------------------
(* backend/app_fastapi.py: the POST handlers *)

NoExc == [type |-> "", text |-> ""]

\* analyze_image and generate_insights stand for a remote vision service and
\* a remote text service ("will be replaced with real Azure Vision API
\* later"): a call returns or raises.  The value the mocks return is among
\* the outcomes.
NotCalled == Raises("NotCalled", "")

MockFeatures ==
    [color |-> [dominantColorForeground |-> "White"], faces |-> <<[age |-> 23]>>]

analyze_image ==
    { Raises("ExtractionError", "vision backend unreachable"),
      Returns(MockFeatures),
      Returns([color |-> [dominantColorForeground |-> "Red"],
               faces |-> <<[age |-> 20], [age |-> 40]>>]),
      Returns([faces |-> <<>>]),
      Returns([color |-> [dominantColorForeground |-> "Gray"]]) }

NarratorOutcomes == {"returns", "raises"}

\* lines 175-180, 193-196, 224-227: the `except Exception as exc` of a
\* handler.  physical_scan first binds APP.logger (to None: no logger is ever
\* installed); the other two read APP.logger as it is, and the read raises
\* AttributeError out of the handler while the attribute is unset, which the
\* server answers with its plain 500 page.
ExceptException(handler, x, lg, called) ==
    IF handler = "physical"
    THEN [resp |-> HTTPException(500, <<"Internal error: ", x.text>>),
          logger |-> "None", calls |-> called, exc |-> x]
    ELSE IF lg = "unset"
    THEN [resp |-> [status |-> 500, body |-> [text |-> "Internal Server Error"]],
          logger |-> lg, calls |-> called, exc |-> x]
    ELSE [resp |-> HTTPException(500, <<"Internal error: ", x.text>>),
          logger |-> lg, calls |-> called, exc |-> x]

Scorer(handler, features) ==
    IF handler = "physical" THEN evaluate_physical_scan(features)
    ELSE evaluate_cognitive_scan(features)

ScorerName(handler) ==
    IF handler = "physical" THEN "evaluate_physical_scan" ELSE "evaluate_cognitive_scan"

\* The body of physical_scan (handler = "physical"), cognitive_scan
\* ("cognitive") and vision_debug ("vision"): e is what analyze_image does
\* when called, n what generate_insights does when called, lg is APP.logger.
RunHandler(handler, image, e, n, lg) ==
    LET rd == _read_upload_file(image)
        c1 == <<"_read_upload_file">>
        c2 == Append(c1, "analyze_image")
        c3 == Append(c2, ScorerName(handler))
        c4 == Append(c3, "generate_insights")
        c5 == Append(c4, "_shape_response")
    IN  IF ~rd.ok
        THEN [resp |-> rd.http, logger |-> lg, calls |-> c1, exc |-> NoExc]
        ELSE IF ~e.ok THEN ExceptException(handler, e.exc, lg, c2)
        ELSE IF handler = "vision"
        THEN [resp |-> [status |-> 200, body |-> [vision |-> e.value]],
              logger |-> lg, calls |-> c2, exc |-> NoExc]
        ELSE LET scores == Scorer(handler, e.value)
             IN  IF ~scores.ok THEN ExceptException(handler, scores.exc, lg, c3)
                 ELSE IF n = "raises"
                 THEN ExceptException(handler,
                          [type |-> "NarrationError", text |-> "text backend unreachable"],
                          lg, c4)
                 ELSE LET shaped == _shape_response(handler, e.value, scores.value,
                                                    generate_insights(scores.value))
                      IN  IF ~shaped.ok THEN ExceptException(handler, shaped.exc, lg, c5)
                          ELSE [resp |-> [status |-> 200, body |-> shaped.value],
                                logger |-> lg, calls |-> c5, exc |-> NoExc]

physical_scan(image, e, n, lg) == RunHandler("physical", image, e, n, lg)
cognitive_scan(image, e, n, lg) == RunHandler("cognitive", image, e, n, lg)
vision_debug(image, e, lg) == RunHandler("vision", image, e, "not called", lg)

COGNITIVE == <<"c", "o", "g", "n", "i", "t", "i", "v", "e">>
PHYSICAL == <<"p", "h", "y", "s", "i", "c", "a", "l">>

\* line 206: (mode or "cognitive").lower(); an absent parameter takes its
\* default "cognitive"
ModeOf(mode) ==
    Lower(IF mode.none \/ mode.s = <<>> THEN COGNITIVE ELSE mode.s)

scan(image, mode, e, n, lg) ==
    IF ModeOf(mode) \notin {COGNITIVE, PHYSICAL}
    THEN [resp |-> HTTPException(400, <<"mode must be 'cognitive' or 'physical'">>),
          logger |-> lg, calls |-> <<>>, exc |-> NoExc]
    ELSE IF ModeOf(mode) = PHYSICAL THEN physical_scan(image, e, n, lg)
    ELSE cognitive_scan(image, e, n, lg)

\* The dispatch of a request to its route.
Route(r, e, n, lg) ==
    LET image == [filename |-> r.filename, contents |-> r.contents]
    IN  CASE r.endpoint = "/api/scan/physical" -> physical_scan(image, e, n, lg)
          [] r.endpoint = "/api/scan/cognitive" -> cognitive_scan(image, e, n, lg)
          [] r.endpoint = "/scan" -> scan(image, r.mode, e, n, lg)
          [] r.endpoint = "/api/vision/debug" -> vision_debug(image, e, lg)

----------------------------------------------------------------------------
(* The requests sent to the backend *)

Bytes == {0, 255}

RECURSIVE SeqsUpTo(_, _)
SeqsUpTo(S, n) ==
    IF n = 0 THEN {<<>>}
    ELSE LET shorter == SeqsUpTo(S, n - 1)
         IN  shorter \cup {Append(q, x) : q \in {p \in shorter : Len(p) = n - 1}, x \in S}

Payloads == SeqsUpTo(Bytes, MaxBytes)

AllowedNames ==
    { <<"a", ".", "p", "n", "g">>, <<"a", ".", "J", "p", "G">>,
      <<"a", ".", "j", "p", "e", "g">>, <<"a", ".", "w", "e", "b", "p">>,
      <<"a", ".", "B", "M", "P">>, <<"a", ".", "g", "i", "f">>,
      <<".", "p", "n", "g">>, <<"a", ".", "t", "x", "t", ".", "p", "n", "g">> }

RejectedNames ==
    { <<>>, <<"p", "n", "g">>, <<"a", ".">>, <<"a", ".", "t", "x", "t">>,
      <<"a", ".", "p", "n", "g", ".", "t", "x", "t">>,
      <<"a", ".", "p", "n", "g", "x">>, <<"a", ".", "p", "n">>,
      <<"a", ".", "p", "n", "g", ".">> }

Filenames == {NoStr} \cup {SomeStr(s) : s \in AllowedNames \cup RejectedNames}

Modes ==
    {NoStr} \cup
    {SomeStr(s) : s \in { <<>>, PHYSICAL, COGNITIVE,
                          <<"P", "H", "Y", "S", "I", "C", "A", "L">>,
                          <<"b", "a", "n", "a", "n", "a">> }}

Contains(q, x) == \E i \in 1..Len(q) : q[i] = x

\* A collaborator's outcome is drawn when the handler calls it.
ExtractorOutcomes(r, lg) ==
    IF Contains(Route(r, NotCalled, "not called", lg).calls, "analyze_image")
    THEN analyze_image ELSE {NotCalled}

NarratorOutcomesFor(r, e, lg) ==
    IF Contains(Route(r, e, "raises", lg).calls, "generate_insights")
    THEN NarratorOutcomes ELSE {"not called"}

Request(endpoint, filename, contents, mode) ==
    [endpoint |-> endpoint, filename |-> filename, contents |-> contents, mode |-> mode]

\* No request is being answered.
NoRequest == Request("", NoStr, <<>>, NoStr)
NoResponse == [status |-> 0, body |-> [text |-> ""]]

\* The server takes request r and answers it: the handler runs from its first
\* line to the response.
Answer(r) ==
    /\ req = NoRequest
    /\ \E e \in ExtractorOutcomes(r, logger) :
        \E n \in NarratorOutcomesFor(r, e, logger) :
            LET out == Route(r, e, n, logger)
            IN  /\ logger' = out.logger
                /\ req' = r
                /\ ext' = e
                /\ nar' = n
                /\ calls' = out.calls
                /\ exc' = out.exc
                /\ resp' = out.resp

PostPhysical ==
    /\ \E f \in Filenames, b \in Payloads :
           Answer(Request("/api/scan/physical", f, b, NoStr))
    /\ UNCHANGED <<sc, sh, cfg, upload_dir, uuids, fr>>

PostCognitive ==
    /\ \E f \in Filenames, b \in Payloads :
           Answer(Request("/api/scan/cognitive", f, b, NoStr))
    /\ UNCHANGED <<sc, sh, cfg, upload_dir, uuids, fr>>

PostScan ==
    /\ \E f \in Filenames, b \in Payloads, m \in Modes :
           Answer(Request("/scan", f, b, m))
    /\ UNCHANGED <<sc, sh, cfg, upload_dir, uuids, fr>>

PostVisionDebug ==
    /\ \E f \in Filenames, b \in Payloads :
           Answer(Request("/api/vision/debug", f, b, NoStr))
    /\ UNCHANGED <<sc, sh, cfg, upload_dir, uuids, fr>>

\* The response has been sent; nothing of the request is kept but what the
\* handler wrote to APP.
Close ==
    /\ req # NoRequest
    /\ req' = NoRequest
    /\ ext' = NotCalled
    /\ nar' = "not called"
    /\ calls' = <<>>
    /\ exc' = NoExc
    /\ resp' = NoResponse
    /\ UNCHANGED <<logger, sc, sh, cfg, upload_dir, uuids, fr>>

\* After import: APP has no attribute logger, no request has arrived.
BackendInit ==
    /\ logger = "unset"
    /\ req = NoRequest
    /\ ext = NotCalled
    /\ nar = "not called"
    /\ calls = <<>>
    /\ exc = NoExc
    /\ resp = NoResponse

ScorersIdle == sc = [features |-> <<>>, physical |-> NotCalled, cognitive |-> NotCalled]
ShaperIdle == sh = [mode |-> "", features |-> <<>>, scores |-> <<>>,
                    explanation |-> PyNone, out |-> NotCalled]
FrontendIdle ==
    /\ cfg = [azure |-> FALSE, openai |-> FALSE]
    /\ upload_dir = {}
    /\ uuids = {}
    /\ fr = <<>>

Init == BackendInit /\ ScorersIdle /\ ShaperIdle /\ FrontendIdle

Next == PostPhysical \/ PostCognitive \/ PostScan \/ PostVisionDebug \/ Close

Spec == Init /\ [][Next]_vars

----------------------------------------------------------------------------
(* The scorers on their own: every feature set of the bounds is evaluated   *)
(* by both.                                                                 *)

Colors ==
    {"White", "Gray", "white", "gray", "WHITE", "GRAY", "Grey", "White ",
     "WhiteGray", "Red", ""}

Ages == {0} \cup (18..MaxAge)

Faces == SeqsUpTo([age : Ages], MaxFaces)

\* A dict from the optional entries given as a set of <<key, value>> pairs.
DictOf(pairs) ==
    [k \in {kv[1] : kv \in pairs} |-> (CHOOSE kv \in pairs : kv[1] = k)[2]]

ColorEntries ==
    {{}} \cup {{<<"color", <<>>>>}}
         \cup {{<<"color", [dominantColorForeground |-> c]>>} : c \in Colors}

FaceEntries == {{}} \cup {{<<"faces", f>>} : f \in Faces}

ScorerFeatureSets == {DictOf(c \cup f) : c \in ColorEntries, f \in FaceEntries}

ScoreInit ==
    /\ \E f \in ScorerFeatureSets :
           sc = [features |-> f, physical |-> NotCalled, cognitive |-> NotCalled]
    /\ BackendInit /\ ShaperIdle /\ FrontendIdle

EvaluatePhysical ==
    /\ sc.physical = NotCalled
    /\ sc' = [sc EXCEPT !.physical = evaluate_physical_scan(sc.features)]
    /\ UNCHANGED <<backendVars, sh, frontendVars>>

EvaluateCognitive ==
    /\ sc.cognitive = NotCalled
    /\ sc' = [sc EXCEPT !.cognitive = evaluate_cognitive_scan(sc.features)]
    /\ UNCHANGED <<backendVars, sh, frontendVars>>

ScoreNext == EvaluatePhysical \/ EvaluateCognitive

SpecScore == ScoreInit /\ [][ScoreNext]_vars

----------------------------------------------------------------------------
(* The response shaper on its own *)

ScoreKeys == {"healthScore", "health_score", "score", "health",
              "cognitiveScore", "cognitive_score", "cognitive"}

ScoreValues ==
    {PyNone, PyNum(0), PyNum(25), PyNum(876), PyStr("7"), PyStr("abc")}

ListValues == {PyList(<<>>), PyList(<<"pallor">>)}

ValuesOf(k) ==
    CASE k \in ScoreKeys -> ScoreValues
      [] k = "confidence" -> {PyNum(9), PyStr("high"), PyNone}
      [] OTHER -> ListValues

ShapedKeys == ScoreKeys \cup {"confidence", "highlights", "issues", "recommendations"}

\* Every mapping over the keys ks.
RECURSIVE MapsOver(_)
MapsOver(ks) ==
    IF ks = {} THEN {<<>>}
    ELSE LET k == CHOOSE x \in ks : TRUE
         IN  {m @@ (k :> v) : m \in MapsOver(ks \ {k}), v \in ValuesOf(k)}

ScoreMaps ==
    UNION {MapsOver(ks) : ks \in {x \in SUBSET ShapedKeys : Cardinality(x) <= MaxKeys}}

Box == PyDict([x |-> PyNum(1), y |-> PyNum(2)])
NineObjects == [i \in 1..9 |-> PyDict([object |-> PyStr("eye")])]

ShapeFeatureSets ==
    { <<>>,
      MockFeatures,
      [regions |-> PyList(<<Box>>), objects |-> PyNum(3)],
      [objects |-> PyList(<<>>)],
      [objects |-> PyList(<< PyDict([object |-> PyStr("eye"), rectangle |-> Box]),
                             PyDict([name |-> PyStr("hand"), boundingBox |-> Box]),
                             PyDict(<<>>) >>)],
      [objects |-> PyList(NineObjects)],
      [objects |-> PyList(<<PyStr("eye")>>)],
      [objects |-> PyNone] }

Explanations ==
    { generate_insights(<<>>), PyNone,
      PyDict(<<>>), PyDict([summary |-> PyStr("rested")]),
      PyDict([summary |-> PyNone]), PyDict([summary |-> PyNum(5)]) }

ShapeInit ==
    /\ \E m \in {"physical", "cognitive"}, f \in ShapeFeatureSets,
          s \in ScoreMaps, e \in Explanations :
           sh = [mode |-> m, features |-> f, scores |-> s, explanation |-> e,
                 out |-> NotCalled]
    /\ BackendInit /\ ScorersIdle /\ FrontendIdle

Shape ==
    /\ sh.out = NotCalled
    /\ sh' = [sh EXCEPT !.out = _shape_response(sh.mode, sh.features, sh.scores,
                                                sh.explanation)]
    /\ UNCHANGED <<backendVars, sc, frontendVars>>

ShapeNext == Shape

SpecShape == ShapeInit /\ [][ShapeNext]_vars

----------------------------------------------------------------------------
(* frontend/index.py: the /scan handler and its upload directory *)

FRONTEND_ALLOWED_EXTENSIONS ==
    { <<"p", "n", "g">>, <<"j", "p", "g">>, <<"j", "p", "e", "g">>,
      <<"w", "e", "b", "p">> }

allowed_file(filename) ==
    /\ \E i \in 1..Len(filename) : filename[i] = "."
    /\ Lower(RSplitDot(filename)[2]) \in FRONTEND_ALLOWED_EXTENSIONS

\* werkzeug.utils.secure_filename: path separators become spaces, runs of
\* whitespace become one "_" (none at the ends), the characters outside
\* [A-Za-z0-9_.-] are dropped, and "." and "_" are stripped from both ends.
RECURSIVE SplitJoin(_, _)
SplitJoin(s, started) ==
    IF s = <<>> THEN <<>>
    ELSE IF Head(s) = " "
    THEN IF started /\ \E i \in 1..Len(s) : s[i] # " "
         THEN <<"_">> \o SplitJoin(Tail(s), FALSE)
         ELSE SplitJoin(Tail(s), started)
    ELSE <<Head(s)>> \o SplitJoin(Tail(s), TRUE)

SafeChars ==
    {"a", "b", "c", "d", "e", "f", "g", "h", "i", "j", "k", "l", "m", "n", "o", "p",
     "q", "r", "s", "t", "u", "v", "w", "x", "y", "z",
     "A", "B", "C", "D", "E", "F", "G", "H", "I", "J", "K", "L", "M", "N", "O", "P",
     "Q", "R", "S", "T", "U", "V", "W", "X", "Y", "Z",
     "0", "1", "2", "3", "4", "5", "6", "7", "8", "9", "_", ".", "-"}

RECURSIVE LStrip(_)
LStrip(s) == IF s # <<>> /\ Head(s) \in {".", "_"} THEN LStrip(Tail(s)) ELSE s

RECURSIVE RStrip(_)
RStrip(s) ==
    IF s # <<>> /\ s[Len(s)] \in {".", "_"} THEN RStrip(SubSeq(s, 1, Len(s) - 1)) ELSE s

secure_filename(filename) ==
    LET spaced == [i \in 1..Len(filename) |-> IF filename[i] = "/" THEN " " ELSE filename[i]]
        joined == SplitJoin(spaced, FALSE)
        ascii == SelectSeq(joined, LAMBDA c : c \in SafeChars)
    IN  RStrip(LStrip(ascii))

NoPath == [uuid |-> 0, name |-> <<>>]

\* lines 73-78: the path f"{uuid.uuid4().hex}_{filename}" under UPLOAD_DIR
UploadPath(u, filename) == [uuid |-> u, name |-> secure_filename(filename)]

\* uuid4 values are 1..MaxReq; a draw never repeats an earlier draw.
Uuid4 == (1..MaxReq) \ uuids

Reqs == 1..MaxReq

JsonError(status, message) == [status |-> status, body |-> [error |-> message]]

\* lines 141-164: the image size is read with PIL when it can be, else it
\* is 1280 x 720.
mock_response(size, mode) ==
    [summary |-> "No immediate health risks detected.",
     healthScore |-> 80 + (size[1] % 7),
     cognitiveScore |-> 72 + (size[2] % 5),
     confidence |-> 87,
     meta |-> [mode |-> mode, engine |-> "mock"]]

ImageSizes(path) ==
    IF path \in upload_dir THEN {<<1280, 720>>, <<640, 481>>} ELSE {<<1280, 720>>}

\* lines 84-100: what the vision service answers (res.json()), or a raise
AzureResults ==
    { Returns(<<>>),
      Returns([description |-> [captions |-> <<[text |-> "a face"]>>],
               tags |-> <<[name |-> "person"]>>]),
      Returns([description |-> [captions |-> <<>>]]),
      Raises("HTTPError", "503 Server Error") }

azure_analyze(path) ==
    IF path \notin upload_dir THEN {Raises("FileNotFoundError", "No such file or directory")}
    ELSE AzureResults

\* lines 106-135
openai_summary ==
    IF ~cfg.openai
    THEN {Returns("No critical concerns detected.")}
    ELSE {Returns("Looks rested."), Raises("HTTPError", "429 Too Many Requests")}

\* lines 209-211: the prompt is built from the first caption and the tags
PromptRaises(result) ==
    \/ /\ "description" \in DOMAIN result
       /\ "captions" \in DOMAIN result.description
       /\ result.description.captions = <<>>
    \/ /\ "tags" \in DOMAIN result
       /\ \E i \in 1..Len(result.tags) : "name" \notin DOMAIN result.tags[i]

FrontendNames ==
    { <<>>, <<"a", ".", "g", "i", "f">>, <<"p", "n", "g">>,
      <<"/", "a", " ", "b", ".", "P", "N", "G">> }

FrontendModes == {NoStr, SomeStr(<<"b", "a", "n", "a", "n", "a">>)}

NewRequest ==
    [pc |-> "new", has_image |-> FALSE, filename |-> <<>>, mode |-> <<>>,
     saved |-> NoPath, result |-> <<>>, pending |-> NoResponse, resp |-> NoResponse]

\* lines 187-194: the checks before the try block
Validate(r) ==
    /\ fr[r].pc = "new"
    /\ \/ fr' = [fr EXCEPT ![r].pc = "done",
                           ![r].resp = JsonError(400, "No image uploaded")]
       \/ \E f \in FrontendNames, m \in FrontendModes :
              IF f = <<>> \/ ~allowed_file(f)
              THEN fr' = [fr EXCEPT ![r].pc = "done", ![r].has_image = TRUE,
                                    ![r].filename = f,
                                    ![r].resp = JsonError(400, "Invalid file")]
              ELSE fr' = [fr EXCEPT ![r].pc = "save", ![r].has_image = TRUE,
                                    ![r].filename = f,
                                    ![r].mode = IF m.none THEN COGNITIVE ELSE m.s]
    /\ UNCHANGED <<backendVars, sc, sh, cfg, upload_dir, uuids>>

\* line 198: saved = save_upload(file); the write may fail before the file
\* exists, and saved is then still None
SaveUpload(r) ==
    /\ fr[r].pc = "save"
    /\ \/ \E u \in Uuid4 :
              LET path == UploadPath(u, fr[r].filename)
              IN  /\ uuids' = uuids \cup {u}
                  /\ upload_dir' = upload_dir \cup {path}
                  /\ fr' = [fr EXCEPT ![r].pc = "azure", ![r].saved = path]
       \/ /\ fr' = [fr EXCEPT ![r].pc = "except"]
          /\ UNCHANGED <<upload_dir, uuids>>
    /\ UNCHANGED <<backendVars, sc, sh, cfg>>

\* lines 201-205
AzureAttempt(r) ==
    /\ fr[r].pc = "azure"
    /\ IF cfg.azure
       THEN \E a \in azure_analyze(fr[r].saved) :
                IF ~a.ok THEN fr' = [fr EXCEPT ![r].pc = "except"]
                ELSE IF a.value = <<>> THEN fr' = [fr EXCEPT ![r].pc = "mock"]
                ELSE fr' = [fr EXCEPT ![r].pc = "summary", ![r].result = a.value]
       ELSE fr' = [fr EXCEPT ![r].pc = "mock"]
    /\ UNCHANGED <<backendVars, sc, sh, cfg, upload_dir, uuids>>

\* line 206
MockFallback(r) ==
    /\ fr[r].pc = "mock"
    /\ \E size \in ImageSizes(fr[r].saved) :
           fr' = [fr EXCEPT ![r].pc = "finally",
                            ![r].pending = [status |-> 200,
                                            body |-> mock_response(size, fr[r].mode)]]
    /\ UNCHANGED <<backendVars, sc, sh, cfg, upload_dir, uuids>>

\* lines 209-227
Summarise(r) ==
    /\ fr[r].pc = "summary"
    /\ IF PromptRaises(fr[r].result) THEN fr' = [fr EXCEPT ![r].pc = "except"]
       ELSE \E o \in openai_summary :
                IF ~o.ok THEN fr' = [fr EXCEPT ![r].pc = "except"]
                ELSE fr' = [fr EXCEPT ![r].pc = "finally",
                                      ![r].pending =
                                          [status |-> 200,
                                           body |-> [summary |-> o.value,
                                                     healthScore |-> 75,
                                                     cognitiveScore |-> 73,
                                                     confidence |-> 78,
                                                     meta |-> [mode |-> fr[r].mode,
                                                               engine |-> "azure+openai"]]]]
    /\ UNCHANGED <<backendVars, sc, sh, cfg, upload_dir, uuids>>

\* lines 229-231
Except(r) ==
    /\ fr[r].pc = "except"
    /\ fr' = [fr EXCEPT ![r].pc = "finally", ![r].pending = JsonError(500, "Scan failed")]
    /\ UNCHANGED <<backendVars, sc, sh, cfg, upload_dir, uuids>>

\* Mutant: the file is removed at the end of the try block, so only when a
\* response was built there.
Mut_Finally_success_only(r) ==
    /\ fr[r].pc = "finally"
    /\ upload_dir' = IF fr[r].saved # NoPath /\ fr[r].saved \in upload_dir
                        /\ fr[r].pending.status = 200
                     THEN upload_dir \ {fr[r].saved} ELSE upload_dir
    /\ fr' = [fr EXCEPT ![r].pc = "done", ![r].resp = fr[r].pending]
    /\ UNCHANGED <<backendVars, sc, sh, cfg, uuids>>

\* lines 233-238, then the return
Finally(r) ==
    /\ fr[r].pc = "finally"
    /\ upload_dir' = IF fr[r].saved # NoPath /\ fr[r].saved \in upload_dir
                     THEN upload_dir \ {fr[r].saved} ELSE upload_dir
    /\ fr' = [fr EXCEPT ![r].pc = "done", ![r].resp = fr[r].pending]
    /\ UNCHANGED <<backendVars, sc, sh, cfg, uuids>>

FrontendInit ==
    /\ cfg \in [azure : BOOLEAN, openai : BOOLEAN]
    /\ upload_dir = {}
    /\ uuids = {}
    /\ fr = [r \in Reqs |-> NewRequest]
    /\ BackendInit /\ ScorersIdle /\ ShaperIdle

FrontendNext ==
    \E r \in Reqs :
        \/ Validate(r)
        \/ SaveUpload(r)
        \/ AzureAttempt(r)
        \/ MockFallback(r)
        \/ Summarise(r)
        \/ Except(r)
        \/ Finally(r)

SpecFrontend == FrontendInit /\ [][FrontendNext]_vars

----------------------------------------------------------------------------
(* Properties *)

\* The six extensions of the upload contract.
SixExtensions ==
    { <<"p", "n", "g">>, <<"j", "p", "g">>, <<"j", "p", "e", "g">>,
      <<"w", "e", "b", "p">>, <<"b", "m", "p">>, <<"g", "i", "f">> }

\* The text after the last "." of a name that has one.
RECURSIVE AfterLastDot(_)
AfterLastDot(s) ==
    IF s = <<>> \/ s[Len(s)] = "." THEN <<>>
    ELSE Append(AfterLastDot(SubSeq(s, 1, Len(s) - 1)), s[Len(s)])

SameIgnoringCase(x, y) ==
    Len(x) = Len(y) /\ \A i \in 1..Len(x) : LowerChar(x[i]) = LowerChar(y[i])

\* The filename is absent, empty, has no "." or its text after the last "."
\* is none of the six extensions, compared case-insensitively.
NotAnImageName(f) ==
    \/ f.none
    \/ f.s = <<>>
    \/ \A i \in 1..Len(f.s) : f.s[i] # "."
    \/ \A x \in SixExtensions : ~SameIgnoringCase(AfterLastDot(f.s), x)

UnsupportedFileType == HTTPException(400, <<"Unsupported file type">>)
EmptyFile == HTTPException(400, <<"Empty file uploaded">>)

\* C1: a request whose filename is absent, empty, without "." or without one
\* of the six extensions is answered 400 and analyze_image is not called for
\* it, whatever its bytes; when the upload validation runs, the answer is
\* the UnsupportedFileType error.
C1_UnsupportedFileType ==
    (req # NoRequest /\ NotAnImageName(req.filename)) =>
        /\ ~Contains(calls, "analyze_image")
        /\ resp.status = 400
        /\ Contains(calls, "_read_upload_file") => resp = UnsupportedFileType

C1_Witness ==
    /\ req.endpoint = "/api/scan/physical"
    /\ req.filename = SomeStr(<<"a", ".", "p", "n", "g", ".", "t", "x", "t">>)
    /\ Len(req.contents) = MaxBytes
    /\ calls = <<"_read_upload_file">>
    /\ resp = UnsupportedFileType

C3_PhysicalScorer ==
    (/\ sc.physical # NotCalled
     /\ "color" \in DOMAIN sc.features
     /\ "dominantColorForeground" \in DOMAIN sc.features.color) =>
        LET s == sc.features.color.dominantColorForeground
        IN  sc.physical =
                Returns([dominant_color |-> PyStr(s),
                         anemia_risk |-> PyNum(IF s = "White" \/ s = "Gray" THEN 7 ELSE 4)])

C3_Witness ==
    /\ sc.physical # NotCalled
    /\ "color" \in DOMAIN sc.features
    /\ sc.features.color = [dominantColorForeground |-> "white"]
    /\ sc.physical.ok
    /\ sc.physical.value.anemia_risk = PyNum(4)

\* C4: when there is a face, the cognitive scorer returns 0.8 and "high" if
\* the first face's age is above 20, and 0.4 and "normal" if not (at 20 too),
\* whatever the other faces are.
C4_CognitiveScorer ==
    (/\ sc.cognitive # NotCalled
     /\ "faces" \in DOMAIN sc.features
     /\ sc.features.faces # <<>>) =>
        sc.cognitive =
            IF Head(sc.features.faces).age > 20
            THEN Returns([stress_score |-> PyNum(8), cognitive_load |-> PyStr("high")])
            ELSE Returns([stress_score |-> PyNum(4), cognitive_load |-> PyStr("normal")])

C4_Witness ==
    /\ sc.cognitive # NotCalled
    /\ "faces" \in DOMAIN sc.features
    /\ sc.features.faces = <<[age |-> 20], [age |-> 23]>>
    /\ sc.cognitive = Returns([stress_score |-> PyNum(4), cognitive_load |-> PyStr("normal")])

ScanResponseKeys ==
    {"mode", "summary", "healthScore", "cognitiveScore", "confidence", "highlights",
     "recommendations", "features", "scores"}

\* C5: /api/scan/physical and /api/scan/cognitive answer a validation failure
\* with 400 and {detail}; a failure of the extractor, the scorer or the
\* narrator with 500 and a {detail} that does not contain the exception's
\* text; anything else with 200 and a ScanResponse.
C5_ErrorContract ==
    req.endpoint \in {"/api/scan/physical", "/api/scan/cognitive"} =>
        IF calls = <<"_read_upload_file">>
        THEN resp.status = 400 /\ DOMAIN resp.body = {"detail"}
        ELSE IF exc # NoExc
        THEN /\ resp.status = 500
             /\ DOMAIN resp.body = {"detail"}
             /\ ~Contains(resp.body.detail, exc.text)
        ELSE resp.status = 200 /\ ScanResponseKeys \subseteq DOMAIN resp.body

\* C6: a /scan request whose mode is neither physical nor cognitive (nor
\* absent) runs no pipeline and is answered 400.
C6_InvalidModeRejected ==
    \A r \in DOMAIN fr :
        fr[r].mode \notin {<<>>, PHYSICAL, COGNITIVE} =>
            /\ fr[r].pc \in {"new", "done"}
            /\ fr[r].pc = "done" => fr[r].resp.status = 400

\* The value under the first key of aliases that scores has, coerced to the
\* nearest integer; None when it has none of them or the coercion fails.
FirstPresent(scores, aliases) ==
    LET present == {i \in 1..Len(aliases) : aliases[i] \in DOMAIN scores}
    IN  IF present = {} THEN PyNone
        ELSE _norm_score(scores[aliases[CHOOSE i \in present : \A j \in present : i <= j]])

\* C7: healthScore is the coerced value of the first present key among
\* healthScore, health_score, score, health, and cognitiveScore that of the
\* first present among cognitiveScore, cognitive_score, cognitive; a present
\* 0 is reported as 0.
C7_FirstPresentAlias ==
    (sh.out # NotCalled /\ sh.out.ok) =>
        /\ sh.out.value.healthScore =
               FirstPresent(sh.scores, <<"healthScore", "health_score", "score", "health">>)
        /\ sh.out.value.cognitiveScore =
               FirstPresent(sh.scores, <<"cognitiveScore", "cognitive_score", "cognitive">>)

\* The keys that are present hold values of their documented types: objects
\* is a list of mappings.
DocumentedTypes(features) ==
    "objects" \in DOMAIN features =>
        /\ features.objects.t = "list"
        /\ \A i \in 1..Len(features.objects.l) : features.objects.l[i].t = "dict"

\* What C8 says of every field but summary.
ShapedDefaults ==
    /\ sh.out.ok
    /\ ScanResponseKeys \subseteq DOMAIN sh.out.value
    /\ sh.out.value.mode = sh.mode
    /\ (DOMAIN sh.scores \cap {"healthScore", "health_score", "score", "health"} = {})
           => sh.out.value.healthScore = PyNone
    /\ (DOMAIN sh.scores \cap {"cognitiveScore", "cognitive_score", "cognitive"} = {})
           => sh.out.value.cognitiveScore = PyNone
    /\ "confidence" \notin DOMAIN sh.scores => sh.out.value.confidence = PyNone
    /\ (DOMAIN sh.scores \cap {"highlights", "issues"} = {})
           => sh.out.value.highlights = PyList(<<>>)
    /\ "recommendations" \notin DOMAIN sh.scores
           => sh.out.value.recommendations = PyList(<<>>)
    /\ (sh.explanation.t \notin {"str", "dict"} \/ sh.explanation = PyDict(<<>>))
           => sh.out.value.summary = PyStr("")
    /\ sh.out.value.features = sh.features
    /\ sh.out.value.scores = sh.scores

C10_Stateless ==
    req # NoRequest => resp = Route(req, ext, nar, "unset").resp

====
